---------------------------- MODULE Spec2Model ----------------------------
(***************************************************************************)
(* A model of debian_mirror_speedtest.py: mirror discovery (get_mirrors),  *)
(* the probe (test_mirror_speed), the thread-pool scheduler loop of main() *)
(* and the ranking/report that ends main().                                *)
(*                                                                         *)
(* Strings that the program cuts at '/' are modelled as the sequence of    *)
(* their '/'-separated segments: "http://a.org/debian/" is                 *)
(* <<"http:", "", "a.org", "debian", "">>.  Python's None is the empty     *)
(* sequence, which is the split of no string.                              *)
(***************************************************************************)
EXTENDS Integers, Sequences, FiniteSets, TLC

(***************************************************************************)
(* Program constants (MirrorSpeedTester.__init__ and main).                *)
(***************************************************************************)
timeout == 1
chunk_size == 65536
download_limit == 512 * 1024
max_connections == 12
TopN == 5

(***************************************************************************)
(* Bounds of the model.                                                    *)
(***************************************************************************)
\* clock readings are whole ticks; TicksPerSecond ticks make one second
TicksPerSecond == 2
\* the longest body a host streams, in chunks
MaxChunks == 9
\* rows of the listing page drawn in Init
MaxRows == 3
\* the worker budget of the pool scenario
PoolWorkers == 2
\* candidates beyond the worker budget in the pool scenario
PoolExtra == 2
\* candidates beyond the report size in the end-to-end scenario
RankExtra == 1

TimeoutTicks == timeout * TicksPerSecond
\* the longest a single blocking call is observed to take
MaxDt == TimeoutTicks + 1

None == <<>>

(***************************************************************************)
(* Python string operations on segment sequences.                          *)
(***************************************************************************)
\* '/debian/' in mirror: a segment "debian" with a '/' before and after it
MarkerAt(mirror, i) == i > 1 /\ i < Len(mirror) /\ mirror[i] = "debian"

HasMarker(mirror) == \E i \in 1..Len(mirror) : MarkerAt(mirror, i)

\* mirror.find('/debian/'), as the index of the marker segment
FindMarker(mirror) ==
    CHOOSE i \in 1..Len(mirror) :
        MarkerAt(mirror, i) /\ \A j \in 1..(i - 1) : ~MarkerAt(mirror, j)

\* mirror[:mirror.find('/debian/')+8]: up to and including the '/' after it
UpToMarker(mirror) == Append(SubSeq(mirror, 1, FindMarker(mirror)), "")

\* mirror.rsplit('/', 4)[0]: at most four splits from the right
RSplit4Head(mirror) ==
    IF Len(mirror) > 4 THEN SubSeq(mirror, 1, Len(mirror) - 4)
    ELSE SubSeq(mirror, 1, 1)

\* line 104
BaseUrl(mirror) ==
    IF HasMarker(mirror) THEN UpToMarker(mirror) ELSE RSplit4Head(mirror)

\* mirror.startswith('http://')
StartsWithHttp(mirror) ==
    Len(mirror) >= 3 /\ mirror[1] = "http:" /\ mirror[2] = ""

\* line 78
Schemes(mirror) ==
    IF StartsWithHttp(mirror) THEN <<"https", "http">> ELSE <<"http", "https">>

\* urljoin(mirror, test_file) raises ValueError when urlsplit finds a '['
\* without its ']' in the network location
BadNetlocs == {"[bad"}

UrljoinRaises(mirror) == Len(mirror) >= 3 /\ mirror[3] \in BadNetlocs

\* truthiness of a str-or-None value: None and "" are falsy
Truthy(s) == s # None /\ s # <<"">>

(***************************************************************************)
(* Throughput.  speed = total_size / duration / 1024 / 1024 is kept as the *)
(* exact fraction total_size / duration (duration in ticks): the unit      *)
(* factors are the same positive constants for every probe, so they change *)
(* neither the sign nor the order of two speeds.                           *)
(***************************************************************************)
Speed(total_size, duration) == [num |-> total_size, den |-> duration]

Zero == [num |-> 0, den |-> 1]

Positive(s) == s.num * s.den > 0

Greater(a, b) == a.num * b.den > b.num * a.den

SameSpeed(a, b) == a.num * b.den = b.num * a.den

NoResult == [kind |-> "ret", base |-> None, speed |-> Zero]

Raised == [kind |-> "raise", base |-> None, speed |-> Zero]


(***************************************************************************)
(* State.  The first group is main() and the executor; `probe' is one      *)
(* invocation of test_mirror_speed followed statement by statement.        *)
(***************************************************************************)
VARIABLES
    page,           \* what the listing URL answers; None once consumed
    net,            \* per network location: the behaviours its host may show
    workers,        \* tester.max_connections, the executor's max_workers
    pc,             \* main()'s position
    mirrors,        \* main(): the candidates
    submitted,      \* number of futures created by executor.submit
    fstate,         \* per future: "pending", "running" or "finished"
    fresult,        \* per finished future: what the call returned or raised
    yielded,        \* futures as_completed has handed to the loop body
    pbar,           \* tqdm's counter
    arch_results,   \* the dict, as its items in insertion order
    sorted_mirrors, \* main(): the ranked list
    out,            \* lines printed, and the error logged by get_mirrors
    probe           \* the probe followed step by step

vars == <<page, net, workers, pc, mirrors, submitted, fstate, fresult, yielded, pbar,
          arch_results, sorted_mirrors, out, probe>>

mainVars == <<page, net, workers, pc, mirrors, submitted, fstate, fresult, yielded,
              pbar, arch_results, sorted_mirrors, out>>

(***************************************************************************)
(* test_mirror_speed, lines 75-109.                                        *)
(***************************************************************************)
\* lines 94-97 without the test of the clock at lines 98-99
AfterChunkCapOnly(total_size, elapsed, size) ==
    IF size > 0
    THEN [total_size |-> total_size + size,
          brk |-> total_size + size >= download_limit]
    ELSE [total_size |-> total_size, brk |-> FALSE]

\* lines 94-99, after a chunk of `size' bytes was read and the clock shows
\* `elapsed': the new total_size and whether the loop breaks
AfterChunk(total_size, elapsed, size) ==
    IF size > 0
    THEN [total_size |-> total_size + size,
          brk |-> (total_size + size >= download_limit)
                  \/ (elapsed > TimeoutTicks)]
    ELSE [total_size |-> total_size, brk |-> FALSE]

\* line 102 without the test of the duration
UsableBytesOnly(total_size, duration) == total_size > 0

\* line 102
Usable(total_size, duration) == duration > 0 /\ total_size > 0

\* lines 103-105
Success(mirror, total_size, duration) ==
    [kind |-> "ret", base |-> BaseUrl(mirror),
     speed |-> Speed(total_size, duration)]

(***************************************************************************)
(* A host's answer to one request, as a script: how session.get ends       *)
(* ("ok", "status" for a non-success status, "exc" for a transport, TLS or *)
(* timeout error) after getdt ticks, the chunks iter_content then yields   *)
(* (size, and ticks waited for it), and how the stream ends ("eof", or     *)
(* "exc" for a read timeout or a reset).                                   *)
(***************************************************************************)
RECURSIVE ReadAll(_, _, _, _)
\* lines 92-99 over a scripted stream: [total_size, elapsed, exc]
ReadAll(total_size, elapsed, chunks, tail) ==
    IF chunks = <<>>
    THEN [total_size |-> total_size, elapsed |-> elapsed, exc |-> (tail = "exc")]
    ELSE LET now == elapsed + Head(chunks).dt
             a == AfterChunk(total_size, now, Head(chunks).size)
         IN  IF a.brk
             THEN [total_size |-> a.total_size, elapsed |-> now, exc |-> FALSE]
             ELSE ReadAll(a.total_size, now, Tail(chunks), tail)

\* lines 81-107, one pass of the for loop: the value returned, or None when
\* the loop goes on to the next scheme
Attempt(mirror, script) ==
    IF script.get # "ok"
    THEN None
    ELSE LET r == ReadAll(0, script.getdt, script.chunks, script.tail)
         IN  IF ~r.exc /\ Usable(r.total_size, r.elapsed)
             THEN Success(mirror, r.total_size, r.elapsed)
             ELSE None

\* lines 75-109; beh maps each scheme to the script of the host's answer
test_mirror_speed(mirror, beh) ==
    IF UrljoinRaises(mirror)
    THEN Raised
    ELSE LET first == Attempt(mirror, beh[Schemes(mirror)[1]])
             second == Attempt(mirror, beh[Schemes(mirror)[2]])
         IN  IF first # None THEN first
             ELSE IF second # None THEN second
             ELSE NoResult

(***************************************************************************)
(* get_mirrors, lines 54-73.  The listing page is its rows (tr); a row is  *)
(* its cells (td); a cell is the hrefs of its anchors, None for an anchor  *)
(* without href.                                                           *)
(***************************************************************************)
\* lines 63-67: what one row appends to `mirrors'
RowHrefs(row) ==
    IF Len(row) >= 2 /\ Len(row[2]) >= 1 /\ Truthy(row[2][1])
    THEN <<row[2][1]>>
    ELSE <<>>

RECURSIVE Extract(_)
\* lines 60-67
Extract(rows) ==
    IF rows = <<>> THEN <<>>
    ELSE RowHrefs(Head(rows)) \o Extract(Tail(rows))

Contains(s, x) == \E i \in 1..Len(s) : s[i] = x

\* list(mirrors): no removal of duplicates
FromKeysAll(acc, s) == acc \o s

RECURSIVE FromKeys(_, _)
\* list(dict.fromkeys(mirrors)), line 69; acc is the dict's keys so far
FromKeys(acc, s) ==
    IF s = <<>> THEN acc
    ELSE FromKeys(IF Contains(acc, Head(s)) THEN acc ELSE Append(acc, Head(s)),
                  Tail(s))

\* the except clause returning what was collected so far, the status checked
\* after the rows were read
get_mirrorsPartial(pg) ==
    [mirrors |-> FromKeys(<<>>, Extract(pg.rows)), logged |-> pg.status # "ok"]

\* lines 56-73: the list returned and whether logger.error was called
get_mirrors(pg) ==
    IF pg.status = "ok"
    THEN [mirrors |-> FromKeys(<<>>, Extract(pg.rows)), logged |-> FALSE]
    ELSE [mirrors |-> <<>>, logged |-> TRUE]

(***************************************************************************)
(* The dict arch_results and the ranking, lines 131 and 137-141.           *)
(***************************************************************************)
HasKey(d, k) == \E i \in 1..Len(d) : d[i].key = k

\* a dict that keeps the greater of the old and the new value
DictPutMax(d, k, v) ==
    IF HasKey(d, k)
    THEN [i \in 1..Len(d) |->
            IF d[i].key = k /\ Greater(v, d[i].val)
            THEN [key |-> k, val |-> v] ELSE d[i]]
    ELSE Append(d, [key |-> k, val |-> v])

\* a dict that forgets its other keys at every store
DictPutOnly(d, k, v) == <<[key |-> k, val |-> v]>>

\* d[k] = v: an existing key keeps its place, a new one goes last
DictPut(d, k, v) ==
    IF HasKey(d, k)
    THEN [i \in 1..Len(d) |-> IF d[i].key = k THEN [key |-> k, val |-> v] ELSE d[i]]
    ELSE Append(d, [key |-> k, val |-> v])

\* item j is placed before item i: a greater value, or an equal one met earlier
Before(items, j, i) ==
    \/ Greater(items[j].val, items[i].val)
    \/ (SameSpeed(items[j].val, items[i].val) /\ j < i)

\* sorted(items, key=lambda x: x[1], reverse=True): stable
SortedDesc(items) ==
    LET place(i) == 1 + Cardinality({j \in 1..Len(items) : Before(items, j, i)})
    IN  [k \in 1..Len(items) |-> items[CHOOSE i \in 1..Len(items) : place(i) = k]]

Min(a, b) == IF a <= b THEN a ELSE b

\* the slice taken without sorting
RankedUnsorted(d) == SubSeq(d, 1, Min(TopN, Len(d)))

\* lines 137-141
Ranked(d) == SubSeq(SortedDesc(d), 1, Min(TopN, Len(d)))

\* lines 147-148: one printed row per ranked entry
Rows(s) == [i \in 1..Len(s) |-> [line |-> "row", mirror |-> s[i].key, speed |-> s[i].val]]

\* the sources lines taken from the last ranked entry instead of the first
ReportLinesLast(ranked, tested, working) ==
    (IF ranked # <<>>
     THEN <<[line |-> "top5"]>> \o Rows(ranked)
          \o <<[line |-> "sources"],
               [line |-> "deb", mirror |-> ranked[Len(ranked)].key, suite |-> "stable"],
               [line |-> "deb", mirror |-> ranked[Len(ranked)].key,
                suite |-> "stable-updates"]>>
     ELSE <<[line |-> "no working mirrors"]>>)
    \o <<[line |-> "summary", tested |-> tested, working |-> working]>>

\* the report without its else branch: nothing is said when no mirror worked
ReportLinesNoMessage(ranked, tested, working) ==
    (IF ranked # <<>>
     THEN <<[line |-> "top5"]>> \o Rows(ranked)
          \o <<[line |-> "sources"],
               [line |-> "deb", mirror |-> ranked[1].key, suite |-> "stable"],
               [line |-> "deb", mirror |-> ranked[1].key, suite |-> "stable-updates"]>>
     ELSE <<>>)
    \o <<[line |-> "summary", tested |-> tested, working |-> working]>>

\* lines 143-156: the lines printed after the loop
ReportLines(ranked, tested, working) ==
    (IF ranked # <<>>
     THEN <<[line |-> "top5"]>> \o Rows(ranked)
          \o <<[line |-> "sources"],
               [line |-> "deb", mirror |-> ranked[1].key, suite |-> "stable"],
               [line |-> "deb", mirror |-> ranked[1].key, suite |-> "stable-updates"]>>
     ELSE <<[line |-> "no working mirrors"]>>)
    \o <<[line |-> "summary", tested |-> tested, working |-> working]>>

(***************************************************************************)
(* main(), lines 111-156, and the executor's workers.                      *)
(***************************************************************************)
Futures == 1..submitted

Running == {i \in Futures : fstate[i] = "running"}

Finished == {i \in Futures : fstate[i] = "finished"}

\* network location of a candidate
Netloc(mirror) == mirror[3]

\* lines 112-118
Discover ==
    /\ pc = "start"
    /\ LET g == get_mirrors(page)
       IN  /\ mirrors' = g.mirrors
           /\ out' = (IF g.logged THEN <<[line |-> "error"]>> ELSE <<>>)
                     \o <<[line |-> "testing", tested |-> Len(g.mirrors)]>>
    /\ arch_results' = <<>>
    /\ pc' = "submit"
    /\ UNCHANGED <<net, workers, submitted, fstate, fresult, yielded, pbar,
                   sorted_mirrors, probe>>

\* the listing is read once: the answer is gone after the request
MainStart == Discover /\ page' = None

\* the same step with the answer kept, to set the candidates beside it
MainStartListed == Discover /\ page' = page

\* lines 121-124: executor.submit for the next mirror
Submit ==
    /\ pc = "submit"
    /\ submitted < Len(mirrors)
    /\ submitted' = submitted + 1
    /\ fstate' = Append(fstate, "pending")
    /\ fresult' = Append(fresult, None)
    /\ UNCHANGED <<page, net, workers, pc, mirrors, yielded, pbar, arch_results,
                   sorted_mirrors, out, probe>>

\* line 126: every mirror is submitted, the progress bar starts at 0
EnterLoop ==
    /\ pc = "submit"
    /\ submitted = Len(mirrors)
    /\ pbar' = 0
    /\ pc' = "loop"
    /\ UNCHANGED <<page, net, workers, mirrors, submitted, fstate, fresult, yielded,
                   arch_results, sorted_mirrors, out, probe>>

\* an executor that starts a thread per work item, whatever max_workers
CanStartUnbounded(i) ==
    /\ fstate[i] = "pending"
    /\ \A j \in 1..(i - 1) : fstate[j] # "pending"

\* a worker may take future i: it heads the FIFO work queue and one of the
\* max_workers\* threads is idle (line 120)
CanStart(i) ==
    /\ fstate[i] = "pending"
    /\ \A j \in 1..(i - 1) : fstate[j] # "pending"
    /\ Cardinality(Running) < workers

Start(i) ==
    /\ CanStart(i)
    /\ fstate' = [fstate EXCEPT ![i] = "running"]
    /\ UNCHANGED <<page, net, workers, pc, mirrors, submitted, fresult, yielded, pbar,
                   arch_results, sorted_mirrors, out, probe>>

\* the worker storing its result in the dict itself, from its own thread
FinishWrites(i) ==
    /\ fstate[i] = "running"
    /\ \E beh \in net[Netloc(mirrors[i])] :
           LET r == test_mirror_speed(mirrors[i], beh)
           IN  /\ fresult' = [fresult EXCEPT ![i] = r]
               /\ arch_results' =
                      IF r.kind = "ret" /\ Truthy(r.base) /\ Positive(r.speed)
                      THEN DictPut(arch_results, r.base, r.speed)
                      ELSE arch_results
    /\ fstate' = [fstate EXCEPT ![i] = "finished"]
    /\ UNCHANGED <<page, net, workers, pc, mirrors, submitted, yielded, pbar,
                   sorted_mirrors, out, probe>>

\* the worker's call of test_mirror_speed ends and the future is set
Finish(i) ==
    /\ fstate[i] = "running"
    /\ \E beh \in net[Netloc(mirrors[i])] :
           fresult' = [fresult EXCEPT ![i] = test_mirror_speed(mirrors[i], beh)]
    /\ fstate' = [fstate EXCEPT ![i] = "finished"]
    /\ UNCHANGED <<page, net, workers, pc, mirrors, submitted, yielded, pbar,
                   arch_results, sorted_mirrors, out, probe>>

\* lines 128-133: the dict after the loop body has handled result r
Collect(d, r) ==
    IF r.kind = "ret" /\ Truthy(r.base) /\ Positive(r.speed)
    THEN DictPut(d, r.base, r.speed)
    ELSE d

\* pbar.update(1) moved into the try statement, behind future.result()
ProgressInTry(n, r) == IF r.kind = "raise" THEN n ELSE n + 1

\* line 134, after the try statement: pbar.update(1) whatever r was
Progress(n, r) == n + 1

\* the loop body without its try/except: a raising future ends main()
YieldNoCatch(i) ==
    /\ pc = "loop"
    /\ i \in Finished \ yielded
    /\ IF fresult[i].kind = "raise"
       THEN /\ pc' = "crashed"
            /\ UNCHANGED <<arch_results, pbar, yielded>>
       ELSE /\ arch_results' = Collect(arch_results, fresult[i])
            /\ pbar' = Progress(pbar, fresult[i])
            /\ yielded' = yielded \cup {i}
            /\ pc' = pc
    /\ UNCHANGED <<page, net, workers, mirrors, submitted, fstate, fresult,
                   sorted_mirrors, out, probe>>

\* lines 127-134: as_completed hands over a finished future
Yield(i) ==
    /\ pc = "loop"
    /\ i \in Finished \ yielded
    /\ arch_results' = Collect(arch_results, fresult[i])
    /\ pbar' = Progress(pbar, fresult[i])
    /\ yielded' = yielded \cup {i}
    /\ UNCHANGED <<page, net, workers, pc, mirrors, submitted, fstate, fresult,
                   sorted_mirrors, out, probe>>

\* as_completed is exhausted
LoopDone == yielded = Futures

\* the loop left at the first result, the executor shut down without waiting
ExitLoopEarly ==
    /\ pc = "loop"
    /\ yielded # {}
    /\ pc' = "rank"
    /\ UNCHANGED <<page, net, workers, mirrors, submitted, fstate, fresult,
                   yielded, pbar, arch_results, sorted_mirrors, out, probe>>

\* lines 127 and 120: the loop and the executor's with block end
ExitLoop ==
    /\ pc = "loop"
    /\ LoopDone
    /\ \A i \in Futures : fstate[i] = "finished"
    /\ pc' = "rank"
    /\ UNCHANGED <<page, net, workers, mirrors, submitted, fstate, fresult, yielded,
                   pbar, arch_results, sorted_mirrors, out, probe>>

\* lines 137-141
Rank ==
    /\ pc = "rank"
    /\ sorted_mirrors' = Ranked(arch_results)
    /\ pc' = "report"
    /\ UNCHANGED <<page, net, workers, mirrors, submitted, fstate, fresult, yielded,
                   pbar, arch_results, out, probe>>

\* lines 143-156
Report ==
    /\ pc = "report"
    /\ out' = out \o ReportLines(sorted_mirrors, Len(mirrors), Len(arch_results))
    /\ pc' = "done"
    /\ UNCHANGED <<page, net, workers, mirrors, submitted, fstate, fresult, yielded,
                   pbar, arch_results, sorted_mirrors, probe>>

(***************************************************************************)
(* test_mirror_speed followed statement by statement, the host's answers   *)
(* drawn as they are received.  `requests' lists the schemes of the        *)
(* requests sent; `hist' notes, for each attempt that has ended, what the  *)
(* host made of it: "exc" or "status" for the request, "read_exc" for the  *)
(* body, otherwise the kind of sample that was read.                       *)
(***************************************************************************)
\* iter_content(chunk_size) hands over between 1 and chunk_size bytes: the
\* transport's stream drops empty reads, so `if chunk' (line 94) is true for
\* every chunk the loop receives
ChunkSizes == {1, chunk_size}

ProbeIdle ==
    [pc |-> "idle", mirror |-> None, si |-> 0, total_size |-> 0, elapsed |-> 0,
     nchunks |-> 0, requests |-> <<>>, hist |-> <<>>, ret |-> NoResult]

\* what was read when the body ended: nothing, something in no time, or a
\* sample of some bytes over some time
SampleKind(total_size, elapsed) ==
    IF total_size = 0 THEN "zero_bytes"
    ELSE IF elapsed = 0 THEN "zero_duration"
    ELSE "sample"

\* a third request after the second scheme failed
NextSchemeRetry(p) ==
    IF Len(p.requests) < 3
    THEN [p EXCEPT !.pc = "request", !.si = IF p.si < 2 THEN p.si + 1 ELSE p.si]
    ELSE [p EXCEPT !.pc = "returned", !.ret = NoResult]

\* line 107 (or the end of the loop body) and line 109
NextScheme(p) ==
    IF p.si < Len(Schemes(p.mirror))
    THEN [p EXCEPT !.pc = "request", !.si = p.si + 1]
    ELSE [p EXCEPT !.pc = "returned", !.ret = NoResult]

\* lines 77-78
ProbeStart ==
    /\ probe.pc = "start"
    /\ probe' = IF UrljoinRaises(probe.mirror)
                THEN [probe EXCEPT !.pc = "raised", !.ret = Raised]
                ELSE [probe EXCEPT !.pc = "request", !.si = 1]
    /\ UNCHANGED mainVars

\* lines 82-92: the request is sent and answered after dt ticks
ProbeGet ==
    /\ probe.pc = "request"
    /\ \E how \in {"ok", "status", "exc"}, dt \in 0..MaxDt :
           LET p == [probe EXCEPT
                        !.requests = Append(@, Schemes(probe.mirror)[probe.si]),
                        !.elapsed = dt, !.total_size = 0, !.nchunks = 0]
           IN  probe' = IF how = "ok" THEN [p EXCEPT !.pc = "read"]
                        ELSE NextScheme([p EXCEPT !.hist = Append(@, how)])
    /\ UNCHANGED mainVars

\* lines 93-99: one chunk arrives after dt ticks
ProbeChunk ==
    /\ probe.pc = "read"
    /\ probe.nchunks < MaxChunks
    /\ \E size \in ChunkSizes, dt \in 0..MaxDt :
           LET a == AfterChunk(probe.total_size, probe.elapsed + dt, size)
           IN  probe' = [probe EXCEPT !.total_size = a.total_size,
                                      !.elapsed = probe.elapsed + dt,
                                      !.nchunks = probe.nchunks + 1,
                                      !.pc = IF a.brk THEN "measure" ELSE "read"]
    /\ UNCHANGED mainVars

\* line 93: the stream ends
ProbeEof ==
    /\ probe.pc = "read"
    /\ probe' = [probe EXCEPT !.pc = "measure"]
    /\ UNCHANGED mainVars

\* line 93 raises (read timeout, reset): lines 106-107
ProbeReadExc ==
    /\ probe.pc = "read"
    /\ probe' = NextScheme([probe EXCEPT !.hist = Append(@, "read_exc")])
    /\ UNCHANGED mainVars

\* lines 101-105
ProbeMeasure ==
    /\ probe.pc = "measure"
    /\ LET p == [probe EXCEPT
                     !.hist = Append(@, SampleKind(probe.total_size, probe.elapsed))]
       IN  probe' = IF Usable(probe.total_size, probe.elapsed)
                    THEN [p EXCEPT
                             !.pc = "returned",
                             !.ret = Success(probe.mirror, probe.total_size,
                                             probe.elapsed)]
                    ELSE NextScheme(p)
    /\ UNCHANGED mainVars

(***************************************************************************)
(* Inputs: candidate URLs, listing pages, host behaviours.                 *)
(***************************************************************************)
UA == <<"http:", "", "a.org", "debian", "">>
UE == <<"http:", "", "a.org", "debian", "extra", "">>
UB == <<"https:", "", "b.org", "debian", "">>
UC == <<"http:", "", "c.org", "pub", "">>
UD == <<"https:", "", "d.org", "pub", "linux", "deb", "">>
UF == <<"http:", "", "f.org", "pub", "">>
UBad == <<"http:", "", "[bad", "debian", "">>

ProbeMirrors == {UA, UE, UB, UC, UD, UBad}

MainUrls == {UA, UC, UF, UBad}

\* a row of the mirror table: country cell, then the cell holding the link
LinkRow(u) == << <<>>, <<u>> >>

OddRows ==
    { <<>>,                         \* no td at all (a header row)
      << <<UA>> >>,                 \* one cell only
      << <<>>, <<>> >>,             \* second cell without anchor
      << <<>>, <<None>> >>,         \* anchor without href
      << <<>>, <<UC, UA>> >> }      \* two anchors: the first counts

RowSet == {LinkRow(u) : u \in MainUrls} \cup OddRows

RECURSIVE SeqsUpTo(_, _)
SeqsUpTo(S, n) ==
    IF n = 0 THEN {<<>>}
    ELSE LET shorter == SeqsUpTo(S, n - 1)
         IN  shorter \cup {Append(q, x) : q \in shorter, x \in S}

Pages ==
    {[status |-> "ok", rows |-> r] : r \in SeqsUpTo(RowSet, MaxRows)}
    \cup {[status |-> "exc", rows |-> <<>>],
          [status |-> "http_error", rows |-> <<LinkRow(UA)>>]}

Chunk(size, dt) == [size |-> size, dt |-> dt]

Full(n) == [i \in 1..n |-> Chunk(chunk_size, 0)]

AExc == [get |-> "exc", getdt |-> 1, chunks |-> <<>>, tail |-> "eof"]
AStatus == [get |-> "status", getdt |-> 1, chunks |-> <<>>, tail |-> "eof"]
AHang == [get |-> "ok", getdt |-> 1, chunks |-> <<>>, tail |-> "exc"]
AEmpty == [get |-> "ok", getdt |-> 1, chunks |-> <<>>, tail |-> "eof"]
AInstant == [get |-> "ok", getdt |-> 0, chunks |-> <<Chunk(1, 0)>>, tail |-> "eof"]
ASlow == [get |-> "ok", getdt |-> 1, chunks |-> <<Chunk(1, 1)>>, tail |-> "eof"]
AFast == [get |-> "ok", getdt |-> 1, chunks |-> Full(2), tail |-> "eof"]

Scripts == {AExc, AStatus, AHang, AEmpty, AInstant, ASlow, AFast}

Both(script) == [s \in {"https", "http"} |-> script]

\* the same answer on both schemes, or an answer on one scheme only
Behaviours ==
    {Both(a) : a \in Scripts}
    \cup {[https |-> AFast, http |-> AExc], [https |-> AExc, http |-> ASlow],
          [https |-> ASlow, http |-> AFast]}

AllNetlocs == {"a.org", "c.org", "f.org", "[bad"}

Idle ==
    /\ mirrors = <<>>
    /\ submitted = 0
    /\ fstate = <<>>
    /\ fresult = <<>>
    /\ yielded = {}
    /\ pbar = 0
    /\ arch_results = <<>>
    /\ sorted_mirrors = <<>>
    /\ out = <<>>

\* any small listing page, any behaviour of any host
Init ==
    /\ page \in Pages
    /\ net = [h \in AllNetlocs |-> Behaviours]
    /\ workers = max_connections
    /\ pc = "start"
    /\ Idle
    /\ probe = ProbeIdle

MainStep == MainStart \/ Submit \/ EnterLoop \/ (\E i \in Futures : Yield(i))
            \/ ExitLoop \/ Rank \/ Report

WorkerStep == \E i \in Futures : Start(i) \/ Finish(i)

Next ==
    \/ MainStart
    \/ Submit
    \/ EnterLoop
    \/ \E i \in Futures : Start(i)
    \/ \E i \in Futures : Finish(i)
    \/ \E i \in Futures : Yield(i)
    \/ ExitLoop
    \/ Rank
    \/ Report

Spec == Init /\ [][Next]_vars

\* threads run when they can, and a running probe returns
FairSpec == Spec /\ WF_vars(MainStep) /\ WF_vars(WorkerStep)

(***************************************************************************)
(* The pool scenario: more candidates than workers.  The executor's rule   *)
(* (CanStart) is the program's; the budget is scaled from max_connections  *)
(* down to PoolWorkers, so that the candidates exceed it within a state    *)
(* space TLC can exhaust (with 12 workers and 13 candidates the futures    *)
(* alone take 3^13 combinations).                                          *)
(***************************************************************************)
PoolBehaviours == {Both(AExc), Both(AFast), Both(AHang)}

HostNames ==
    <<"h01", "h02", "h03", "h04", "h05", "h06", "h07", "h08", "h09", "h10",
      "h11", "h12", "h13", "h14", "h15", "h16">>

HostUrl(i) == <<"http:", "", HostNames[i], "debian", "">>

PoolSize == PoolWorkers + PoolExtra

PoolInit ==
    /\ page = [status |-> "ok", rows |-> [i \in 1..PoolSize |-> LinkRow(HostUrl(i))]]
    /\ net = [h \in {HostNames[i] : i \in 1..PoolSize} |-> PoolBehaviours]
    /\ workers = PoolWorkers
    /\ pc = "start"
    /\ Idle
    /\ probe = ProbeIdle

PoolSpec == PoolInit /\ [][Next]_vars

PoolFairSpec == PoolSpec /\ WF_vars(MainStep) /\ WF_vars(WorkerStep)

(***************************************************************************)
(* The end-to-end scenario: more candidates than the report holds, on      *)
(* distinct hosts; each host is either down or answers with a throughput   *)
(* of its own.                                                             *)
(***************************************************************************)
E2ESize == TopN + RankExtra

\* the chunks host i serves: a permutation of 1..E2ESize that is not sorted
WinChunks(i) == ((i * 3) % (E2ESize + 1))

Win(i) == [get |-> "ok", getdt |-> 1, chunks |-> Full(WinChunks(i)), tail |-> "eof"]

E2EInit ==
    /\ page = [status |-> "ok", rows |-> [i \in 1..E2ESize |-> LinkRow(HostUrl(i))]]
    /\ \E up \in SUBSET (1..E2ESize) :
           net = [h \in {HostNames[i] : i \in 1..E2ESize} |->
                    LET i == CHOOSE j \in 1..E2ESize : HostNames[j] = h
                    IN  IF i \in up THEN {Both(Win(i))} ELSE {Both(AExc)}]
    /\ workers = max_connections
    /\ pc = "start"
    /\ Idle
    /\ probe = ProbeIdle

E2ESpec == E2EInit /\ [][Next]_vars

(***************************************************************************)
(* Discovery and submission with the listing kept: any small listing page, *)
(* every host down.                                                        *)
(***************************************************************************)
ListedInit ==
    /\ page \in Pages
    /\ net = [h \in AllNetlocs |-> {Both(AExc)}]
    /\ workers = max_connections
    /\ pc = "start"
    /\ Idle
    /\ probe = ProbeIdle

ListedNext == MainStartListed \/ Submit \/ EnterLoop

ListedSpec == ListedInit /\ [][ListedNext]_vars

(***************************************************************************)
(* One probe on its own.                                                   *)
(***************************************************************************)
ProbeInit ==
    /\ page = None
    /\ net = [h \in {} |-> {}]
    /\ workers = max_connections
    /\ pc = "off"
    /\ Idle
    /\ \E m \in ProbeMirrors : probe = [ProbeIdle EXCEPT !.pc = "start", !.mirror = m]

ProbeNext ==
    \/ ProbeStart
    \/ ProbeGet
    \/ ProbeChunk
    \/ ProbeEof
    \/ ProbeReadExc
    \/ ProbeMeasure

ProbeSpec == ProbeInit /\ [][ProbeNext]_vars

(***************************************************************************)
(* The ranking on its own: main() at line 137 after every candidate of the *)
(* list succeeded, with any throughputs (equal ones included).             *)
(***************************************************************************)
RankSpeeds == {Speed(1, 1), Speed(2, 1), Speed(1, 2), Speed(2, 2)}

RankInit ==
    /\ page = None
    /\ net = [h \in {} |-> {}]
    /\ workers = max_connections
    /\ pc = "rank"
    /\ \E n \in 0..E2ESize :
       \E v \in [1..n -> RankSpeeds] :
           /\ mirrors = [i \in 1..n |-> HostUrl(i)]
           /\ submitted = n
           /\ fstate = [i \in 1..n |-> "finished"]
           /\ fresult = [i \in 1..n |->
                           [kind |-> "ret", base |-> BaseUrl(HostUrl(i)),
                            speed |-> v[i]]]
           /\ yielded = 1..n
           /\ pbar = n
           /\ arch_results = [i \in 1..n |->
                                [key |-> BaseUrl(HostUrl(i)), val |-> v[i]]]
    /\ sorted_mirrors = <<>>
    /\ out = <<>>
    /\ probe = ProbeIdle

RankNext == Rank \/ Report

RankSpec == RankInit /\ [][RankNext]_vars

(***************************************************************************)
(* Both: a run of main(), or one probe followed step by step.              *)
(***************************************************************************)
AllInit == Init \/ ProbeInit

AllNext == Next \/ ProbeNext

AllSpec == AllInit /\ [][AllNext]_vars

(***************************************************************************)
(* Properties.                                                             *)
(***************************************************************************)
AfterLoop == pc \in {"rank", "report", "done"}

IsSuccess(r) == r.kind = "ret" /\ r.base # None

\* C1: the progress counter advances exactly once per submitted candidate,
\* whatever the task's outcome (success, no result, an exception): it counts
\* the futures handed to the loop body, never exceeds the number of completed
\* tasks, and equals the number of candidates once the loop has ended.
C1_ProgressOncePerCandidate ==
    /\ pbar = Cardinality(yielded)
    /\ pbar <= Cardinality(Finished)
    /\ pbar <= Len(mirrors)
    /\ AfterLoop => pbar = Len(mirrors)

\* a finished run of three candidates: one raised, one succeeded, one gave
\* no result
C1_Witness ==
    /\ pc = "done"
    /\ pbar = 3
    /\ \E i, j, k \in Futures :
           /\ fresult[i].kind = "raise"
           /\ IsSuccess(fresult[j])
           /\ fresult[k] = NoResult

\* a future only moves forward (pending, running, finished) and keeps its
\* result: none is cancelled, none is withdrawn
NoCancel ==
    /\ submitted' >= submitted
    /\ \A i \in Futures :
           /\ fstate[i] = "pending" => fstate'[i] \in {"pending", "running"}
           /\ fstate[i] = "running" => fstate'[i] \in {"running", "finished"}
           /\ fstate[i] = "finished" =>
                  fstate'[i] = "finished" /\ fresult'[i] = fresult[i]

AllReturned ==
    /\ submitted = Len(mirrors)
    /\ \A i \in 1..Len(mirrors) : fstate[i] = "finished"

\* C2: ranking and reporting start only when every submitted probe task has
\* returned; no task is cancelled once submitted; and, with threads scheduled
\* fairly and every probe terminating, the run reaches the end of the report.
C2_WaitsForAllTasks ==
    /\ [](AfterLoop => AllReturned)
    /\ [][NoCancel]_vars
    /\ <>(pc = "done")

\* ranking is about to start after three probes ran
C2_Witness ==
    /\ pc = "rank"
    /\ submitted = 3
    /\ AllReturned

NoDuplicates(s) == \A i, j \in 1..Len(s) : s[i] = s[j] => i = j

\* future i belongs to candidate mirrors[i]: one task per candidate
OneTaskPerCandidate ==
    /\ NoDuplicates(mirrors)
    /\ submitted <= Len(mirrors)
    /\ pc \notin {"start", "submit"} => submitted = Len(mirrors)

\* a probe starts only on an idle worker; one beyond the budget starts only
\* after an earlier one has finished
StartsOnIdleWorker ==
    \A i \in Futures :
        fstate[i] = "pending" /\ fstate'[i] = "running" =>
            /\ Cardinality(Running) < workers
            /\ i > workers => \E j \in 1..(i - 1) : fstate[j] = "finished"

Started(i) == i <= submitted /\ fstate[i] \in {"running", "finished"}

\* a started probe never returns to the queue
StartedForGood == \A i \in Futures : Started(i) => Started(i)'

\* every candidate has its task and none of them is still queued
AllStarted ==
    /\ pc # "start"
    /\ submitted = Len(mirrors)
    /\ \A i \in 1..Len(mirrors) : Started(i)

\* C3: exactly one probe task is submitted per candidate; the probes running
\* at any time never outnumber the worker budget; a candidate beyond the
\* budget starts only after a running probe has finished; and every queued
\* probe is eventually started (a moment comes when all are started, and a
\* started probe stays started, so none was left queued before it).
C3_BoundedConcurrency ==
    /\ [](OneTaskPerCandidate /\ Cardinality(Running) <= workers)
    /\ [][StartsOnIdleWorker /\ StartedForGood]_vars
    /\ <>AllStarted

\* every worker is busy, one of them with a candidate beyond the budget, and
\* another candidate is still queued
C3_Witness ==
    /\ Cardinality(Running) = workers
    /\ submitted > workers
    /\ \E i \in Futures : i > workers /\ fstate[i] = "running"
    /\ \E j \in Futures : fstate[j] = "pending"

HasLine(l) == \E i \in 1..Len(out) : out[i].line = l

\* the listing request failed: get_mirrors logged the error (line 72)
DiscoveryFailed == out # <<>> /\ out[1].line = "error"

C5_FailuresYieldNoResult ==
    /\ probe.pc # "raised"
    /\ probe.pc = "returned" /\ ~IsSuccess(probe.ret) => probe.ret = NoResult

Positions == {"start", "submit", "loop", "rank", "report", "done"}

\* C6: an exception out of one task is caught in the loop body and counts as
\* no result: main() goes on, every entry of the ResultSet is the success of
\* a yielded sibling (a raising task adds none), every yielded success is
\* recorded, and the loop ends only when all siblings were handled.
C6_TaskExceptionIsNoResult ==
    /\ pc \in Positions
    /\ \A e \in 1..Len(arch_results) :
           \E i \in yielded :
               /\ IsSuccess(fresult[i])
               /\ fresult[i].base = arch_results[e].key
               /\ fresult[i].speed = arch_results[e].val
    /\ \A i \in yielded :
           IsSuccess(fresult[i]) => HasKey(arch_results, fresult[i].base)
    /\ AfterLoop => yielded = 1..Len(mirrors)

\* a run has ended in which one task raised and a sibling's success is in
\* the ResultSet
C6_Witness ==
    /\ pc = "done"
    /\ \E i, j \in Futures :
           /\ fresult[i].kind = "raise"
           /\ IsSuccess(fresult[j])
           /\ HasKey(arch_results, fresult[j].base)

\* a throughput made of a positive byte count and a positive elapsed time
FromPositiveSample(s) == s.num > 0 /\ s.den > 0 /\ Positive(s)

\* C7: every successful probe result has throughput > 0 and comes from a
\* byte count > 0 and an elapsed time > 0 (in the probe followed step by step
\* and in the results the futures carry); hence every value in the ResultSet
\* is > 0, and no zero-byte or zero-duration sample is recorded.
C7_SuccessIsPositive ==
    /\ probe.pc = "returned" /\ IsSuccess(probe.ret) =>
           /\ probe.total_size > 0
           /\ probe.elapsed > 0
           /\ probe.ret.speed = Speed(probe.total_size, probe.elapsed)
           /\ FromPositiveSample(probe.ret.speed)
    /\ \A i \in Finished :
           IsSuccess(fresult[i]) => FromPositiveSample(fresult[i].speed)
    /\ \A e \in 1..Len(arch_results) : FromPositiveSample(arch_results[e].val)

\* a run has ended with a success in the ResultSet beside a candidate whose
\* samples were unusable
C7_Witness ==
    /\ pc = "done"
    /\ arch_results # <<>>
    /\ \E i \in Futures : fresult[i] = NoResult

\* C8 as stated: the probe's byte count never exceeds download_limit,
\* whatever chunk sizes (up to chunk_size) the stream delivers.
C8_BytesWithinCap == probe.total_size <= download_limit

Ranking == pc \in {"report", "done"}

InReport(k) == \E i \in 1..Len(sorted_mirrors) : sorted_mirrors[i].key = k

\* C9: the ranked report holds min(5, size of the ResultSet) entries (so at
\* most that many), all of them entries of the ResultSet, none twice, in
\* descending order of throughput; no entry left out is strictly faster than
\* one included; an empty ResultSet gives an empty report.
C9_RankedTopN ==
    Ranking =>
        /\ Len(sorted_mirrors) = Min(TopN, Len(arch_results))
        /\ Len(sorted_mirrors) <= TopN
        /\ \A i \in 1..Len(sorted_mirrors) :
               \E e \in 1..Len(arch_results) : arch_results[e] = sorted_mirrors[i]
        /\ \A i, j \in 1..Len(sorted_mirrors) :
               sorted_mirrors[i].key = sorted_mirrors[j].key => i = j
        /\ \A i, j \in 1..Len(sorted_mirrors) :
               i < j => ~Greater(sorted_mirrors[j].val, sorted_mirrors[i].val)
        /\ \A e \in 1..Len(arch_results), i \in 1..Len(sorted_mirrors) :
               ~InReport(arch_results[e].key) =>
                   ~Greater(arch_results[e].val, sorted_mirrors[i].val)
        /\ arch_results = <<>> => sorted_mirrors = <<>>

\* a ResultSet larger than the report and not in descending order was ranked
C9_Witness ==
    /\ Ranking
    /\ Len(arch_results) > TopN
    /\ Len(sorted_mirrors) = TopN
    /\ \E i, j \in 1..Len(arch_results) :
           i < j /\ Greater(arch_results[j].val, arch_results[i].val)

Succeeded == {i \in Futures : IsSuccess(fresult[i])}

\* the successes have distinct base URLs and distinct throughputs
DistinctSuccesses ==
    \A i, j \in Succeeded :
        i # j => /\ fresult[i].base # fresult[j].base
                 /\ ~SameSpeed(fresult[i].speed, fresult[j].speed)

Fastest(i) ==
    /\ i \in Succeeded
    /\ \A j \in Succeeded : ~Greater(fresult[j].speed, fresult[i].speed)

IsRow(l) == l.line = "row"

IsDeb(l) == l.line = "deb"

\* C10: when k candidates succeed (distinct base URLs, distinct throughputs)
\* and the others fail both schemes, then whatever the completion order the
\* report prints min(5, k) rows, the first of them the base URL of the
\* fastest candidate, and the two sources lines (stable, stable-updates)
\* name that base URL.
C10_EndToEndReport ==
    pc = "done" /\ DistinctSuccesses =>
        LET rows == SelectSeq(out, IsRow)
            debs == SelectSeq(out, IsDeb)
        IN  /\ Len(rows) = Min(TopN, Cardinality(Succeeded))
            /\ \A i \in Succeeded :
                   Fastest(i) =>
                       /\ rows[1].mirror = fresult[i].base
                       /\ rows[1].speed = fresult[i].speed
                       /\ debs = <<[line |-> "deb", mirror |-> fresult[i].base,
                                    suite |-> "stable"],
                                   [line |-> "deb", mirror |-> fresult[i].base,
                                    suite |-> "stable-updates"]>>
            /\ Succeeded = {} => debs = <<>>

\* every candidate succeeded, more than the report holds, and the fastest was
\* not the first to be recorded
C10_Witness ==
    /\ pc = "done"
    /\ Cardinality(Succeeded) > TopN
    /\ DistinctSuccesses
    /\ arch_results[1].key # sorted_mirrors[1].key

\* C11: when the ResultSet is empty at the end of the run (no candidate, or
\* no candidate with a usable sample), the report is the 'Testing n mirrors'
\* line (after the logged error, if discovery failed), then 'No working
\* mirrors found', then the summary with n = the number of candidates and 0
\* working, printed last; no table row and no sources line is printed.
C11_EmptyResultSetReport ==
    pc = "done" /\ arch_results = <<>> =>
        LET n == Len(out)
        IN  /\ n >= 3
            /\ out[n] = [line |-> "summary", tested |-> Len(mirrors), working |-> 0]
            /\ out[n - 1] = [line |-> "no working mirrors"]
            /\ out[n - 2] = [line |-> "testing", tested |-> Len(mirrors)]
            /\ \A i \in 1..n : out[i].line \notin {"top5", "row", "sources", "deb"}
            /\ mirrors = <<>> => out[n].tested = 0

\* a run has ended in which each of three candidates failed on every scheme
C11_Witness ==
    /\ pc = "done"
    /\ arch_results = <<>>
    /\ Len(mirrors) = 3
    /\ \A i \in Futures : fresult[i] = NoResult
    /\ out[Len(out)] = [line |-> "summary", tested |-> 3, working |-> 0]

\* the scheme of the candidate itself, and the other one
OwnScheme(mirror) == IF StartsWithHttp(mirror) THEN "http" ELSE "https"

OtherScheme(mirror) == IF StartsWithHttp(mirror) THEN "https" ELSE "http"

\* C12 as stated: the first request of a probe uses the candidate's own
\* scheme (plain-HTTP for an http:// candidate, secure otherwise) and the
\* second, if any, uses the other scheme.
C12_OwnSchemeFirst ==
    /\ Len(probe.requests) >= 1 => probe.requests[1] = OwnScheme(probe.mirror)
    /\ Len(probe.requests) >= 2 => probe.requests[2] = OtherScheme(probe.mirror)

\* an attempt that ended without a usable sample
Failed(kind) == kind \in {"exc", "status", "read_exc", "zero_bytes", "zero_duration"}

ProbeEnded == probe.pc \in {"returned", "raised"}

\* C13: the requests of one probe are the schemes of its list, each at most
\* once and in order, so at most two; the second request is sent if and only
\* if the first attempt failed (request error, non-success status, exception
\* while reading, zero-byte or zero-duration sample); an attempt that gave a
\* usable sample is the last one and the probe returns its success; the probe
\* returns no-result exactly when both attempts failed; and a probe that has
\* ended sends nothing more.
C13_AtMostOneAttemptPerScheme ==
    /\ [](LET n == Len(probe.requests)
              h == probe.hist
          IN  /\ n <= 2
              /\ probe.requests = SubSeq(Schemes(probe.mirror), 1, n)
              /\ Len(h) \in {n - 1, n} \cap (0..2)
              /\ n = 2 => Failed(h[1])
              /\ Len(h) >= 1 /\ Failed(h[1]) => n = 2 \/ probe.pc = "request"
              /\ \A k \in 1..Len(h) :
                     ~Failed(h[k]) =>
                         /\ k = n
                         /\ probe.pc = "returned"
                         /\ IsSuccess(probe.ret)
              /\ probe.pc = "returned" =>
                     /\ IsSuccess(probe.ret) <=> ~Failed(h[Len(h)])
                     /\ probe.ret = NoResult <=>
                            (n = 2 /\ Failed(h[1]) /\ Len(h) = 2 /\ Failed(h[2])))
    /\ [][ProbeEnded => probe' = probe]_vars

\* a probe returned the success of its second attempt after the first gave
\* an unusable sample
C13_Witness ==
    /\ probe.pc = "returned"
    /\ IsSuccess(probe.ret)
    /\ Len(probe.requests) = 2
    /\ probe.hist = <<"zero_duration", "sample">>

CapReached(p) == p.total_size >= download_limit

TimedOut(p) == p.elapsed > TimeoutTicks

\* C14: the body is read on only while, after each chunk, the byte count is
\* below the cap and the time since the request started does not exceed the
\* timeout; once the loop has ended no chunk of that response is read; and a
\* body that ended this way (or by the end of the stream) with bytes > 0 and
\* elapsed > 0 makes the probe return a success with that throughput.
C14_StopsAtCapOrTimeout ==
    /\ [](probe.pc = "read" /\ probe.nchunks >= 1 =>
              ~CapReached(probe) /\ ~TimedOut(probe))
    /\ [][/\ probe.pc = "read" /\ probe'.nchunks = probe.nchunks + 1
             /\ (CapReached(probe') \/ TimedOut(probe'))
                => probe'.pc = "measure"]_vars
    /\ [][probe.pc = "measure" =>
              /\ probe'.pc \in {"returned", "request"}
              /\ probe.total_size > 0 /\ probe.elapsed > 0 =>
                     /\ probe'.pc = "returned"
                     /\ probe'.ret = Success(probe.mirror, probe.total_size,
                                             probe.elapsed)]_vars

\* a probe returned a success after the clock, not the cap, ended its loop
\* at the second chunk or later
C14_Witness ==
    /\ probe.pc = "returned"
    /\ IsSuccess(probe.ret)
    /\ TimedOut(probe)
    /\ ~CapReached(probe)
    /\ probe.nchunks >= 2

\* the first segment of a URL of the given scheme
SchemeSeg(scheme) == IF scheme = "https" THEN "https:" ELSE "http:"

\* the candidate with its scheme replaced: scheme, host and path of test_url
\* (line 82) without the test file
Rewritten(mirror, scheme) == [mirror EXCEPT ![1] = SchemeSeg(scheme)]

IsPrefix(a, b) == Len(a) <= Len(b) /\ SubSeq(b, 1, Len(a)) = a

\* C15 as stated: the base URL a successful probe returns has the scheme of
\* the attempt that succeeded; it is that URL up to and including '/debian/'
\* when the marker is present, and otherwise that URL less some trailing path
\* segments (scheme and host are kept).
C15_BaseUrlOfSuccessfulAttempt ==
    probe.pc = "returned" /\ IsSuccess(probe.ret) =>
        LET scheme == probe.requests[Len(probe.requests)]
            u == Rewritten(probe.mirror, scheme)
            base == probe.ret.base
        IN  /\ base[1] = SchemeSeg(scheme)
            /\ HasMarker(probe.mirror) => base = UpToMarker(u)
            /\ ~HasMarker(probe.mirror) => IsPrefix(base, u) /\ Len(base) >= 3

\* d[k]
Lookup(d, k) == d[CHOOSE i \in 1..Len(d) : d[i].key = k].val

Keys(d) == {d[i].key : i \in 1..Len(d)}

\* the loop body handles future i in this step
Handled(i) == i \notin yielded /\ i \in yielded'

\* C16: every success the loop handles is stored under its base URL,
\* replacing whatever was stored there, and leaves the other keys alone; a
\* result that is not a success, and every step that handles no result,
\* leaves the ResultSet as it is.  So after all tasks the value of a key is
\* the throughput of the success handled last for it, whichever is greater.
C16_LastWriterWins ==
    /\ [][\A i \in Futures :
              Handled(i) =>
                  IF IsSuccess(fresult[i])
                  THEN /\ Keys(arch_results') = Keys(arch_results) \cup {fresult[i].base}
                       /\ Lookup(arch_results', fresult[i].base) = fresult[i].speed
                       /\ \A k \in Keys(arch_results) \ {fresult[i].base} :
                              Lookup(arch_results', k) = Lookup(arch_results, k)
                  ELSE arch_results' = arch_results]_vars
    /\ [][yielded' = yielded => arch_results' = arch_results]_vars

\* a run has ended in which two successes share a base URL and the value
\* stored is the smaller throughput
C16_Witness ==
    /\ pc = "done"
    /\ \E i, j \in Futures :
           /\ IsSuccess(fresult[i]) /\ IsSuccess(fresult[j])
           /\ fresult[i].base = fresult[j].base
           /\ Greater(fresult[j].speed, fresult[i].speed)
           /\ Lookup(arch_results, fresult[i].base) = fresult[i].speed

\* a step of a worker thread or of a probe: a future or the probe moves
WorkerMoves == fstate' # fstate \/ fresult' # fresult \/ probe' # probe

\* C17: the ResultSet changes only in a step of main()'s loop, which handles
\* exactly one finished future in that step, so one write at a time; no step
\* of a worker or of a probe changes it, and what a task returns is
\* determined by its candidate and the host's behaviour alone.
C17_SerializedWrites ==
    /\ [][arch_results' # arch_results =>
              /\ pc = "loop" /\ pc' = "loop"
              /\ Cardinality(yielded' \ yielded) = 1
              /\ ~WorkerMoves]_vars
    /\ [](\A i \in Finished :
              \E beh \in net[Netloc(mirrors[i])] :
                  fresult[i] = test_mirror_speed(mirrors[i], beh))

\* the loop has stored a result while a probe is running on a worker
C17_Witness ==
    /\ pc = "loop"
    /\ arch_results # <<>>
    /\ Running # {}

\* index of the first occurrence of x in s
FirstIndex(s, x) == CHOOSE i \in 1..Len(s) : s[i] = x /\ \A j \in 1..(i - 1) : s[j] # x

\* C18: after a listing that was fetched successfully, the candidates are the
\* hrefs extracted from its rows with exact duplicates removed: no string
\* twice, every extracted href and nothing else, in the order of their first
\* occurrences; and the probe tasks submitted are one per candidate.
C18_DedupKeepsFirstOccurrences ==
    pc # "start" /\ page.status = "ok" =>
        LET e == Extract(page.rows)
        IN  /\ NoDuplicates(mirrors)
            /\ \A i \in 1..Len(e) : Contains(mirrors, e[i])
            /\ \A a \in 1..Len(mirrors) : Contains(e, mirrors[a])
            /\ \A a, b \in 1..Len(mirrors) :
                   a < b => FirstIndex(e, mirrors[a]) < FirstIndex(e, mirrors[b])
            /\ submitted <= Len(mirrors)
            /\ pc = "loop" => submitted = Len(mirrors)

\* three hrefs were extracted, the third a repeat of the first: two
\* candidates, two probe tasks
C18_Witness ==
    /\ pc = "loop"
    /\ page.status = "ok"
    /\ Len(Extract(page.rows)) = 3
    /\ Extract(page.rows)[3] = Extract(page.rows)[1]
    /\ Len(mirrors) = 2
    /\ submitted = 2

\* the futures whose probe has returned a success
Successes == {i \in Finished : IsSuccess(fresult[i])}

\* C19 as stated: the successes of two distinct candidates never carry the
\* same base URL, so the ResultSet has one key per successful candidate and
\* the summary's 'found N working' is the number of candidates that succeeded.
C19_OneKeyPerSuccessfulCandidate ==
    /\ \A i, j \in Successes : i # j => fresult[i].base # fresult[j].base
    /\ pc = "done" => out[Len(out)].working = Cardinality(Successes)

\* C20: in every state of the run each entry of the ResultSet is the success
\* (base URL and throughput) of a probe task that has completed; the entries
\* have distinct keys and are no more than the completed tasks, which are no
\* more than the candidates; and no step removes a key.
C20_ResultSetFromCompletedTasks ==
    /\ [](/\ \A e \in 1..Len(arch_results) :
                 \E i \in Successes :
                     /\ fresult[i].base = arch_results[e].key
                     /\ fresult[i].speed = arch_results[e].val
          /\ \A e, f \in 1..Len(arch_results) :
                 arch_results[e].key = arch_results[f].key => e = f
          /\ Len(arch_results) <= Cardinality(Finished)
          /\ Cardinality(Finished) <= Len(mirrors))
    /\ [][Keys(arch_results) \subseteq Keys(arch_results')]_vars

\* in the loop: one success stored, a second task completed, a third
\* candidate whose task has not completed
C20_Witness ==
    /\ pc = "loop"
    /\ Len(arch_results) = 1
    /\ Cardinality(Finished) = 2
    /\ Len(mirrors) = 3

=============================================================================
